---- MODULE Spec2Model ----
(***************************************************************************)
(* Model of the Ethereum watcher (src/src/eth_watch/mod.rs): the startup   *)
(* loop, restore_state_from_eth, the message loop of EthWatch::run with    *)
(* its two requests, the poll cycle with its seven provider calls, the     *)
(* backoff mode and the priority queue kept in ETHState.                   *)
(***************************************************************************)
EXTENDS Integers, Sequences, FiniteSets, TLC

(***************************************************************************)
(* Bounds of the model.                                                    *)
(***************************************************************************)
\* block_number() reports a head in 0..MaxHead, or one expiration window
\* later.
MaxHead == 1
\* number_of_confirmations_for_event is drawn from 0..MaxConf.
MaxConf == 1
\* Capacity of the request channel (mpsc::channel(256) in the binary).
MaxQueue == 2
\* The clock runs from 0 to MaxTime seconds, in steps of half the rate limit
\* delay.
MaxTime == 30
\* GetPriorityQueueOps draws op_start_id from 0..MaxStartId and max_chunks
\* from 0..MaxChunks.
MaxStartId == 2
MaxChunks == 3
\* The multiplexer holds up to MaxClients providers.
MaxClients == 3

\* The width in bits of the word that stands for u64.
WordBits == 16

(***************************************************************************)
(* Program constants.                                                      *)
(***************************************************************************)
PRIORITY_EXPIRATION == 35000
\* RATE_LIMIT_DELAY, in seconds.
RATE_LIMIT_DELAY == 30
TimeStep == RATE_LIMIT_DELAY \div 2

\* The text is_backoff_requested looks for, one character per element.
RATE_LIMIT_PATTERN ==
    <<"4","2","9"," ","T","o","o"," ","M","a","n","y"," ",
      "R","e","q","u","e","s","t","s">>

(***************************************************************************)
(* The provider (EthClient) as the watcher sees it: the chain's priority   *)
(* events, the heads block_number() may report and the texts of the errors *)
(* a call may fail with.                                                   *)
(***************************************************************************)
PriorityOp(id, block, cost) ==
    [serial_id |-> id, eth_block |-> block, chunks |-> cost]

\* The chains the provider may serve.  Events sit in the early blocks and one
\* expiration window later; the second chain lacks serial id 2, in the third
\* a reorg has moved serial id 1 from block 1 to block 2.
ChainContiguous ==
    { PriorityOp(0, 0, 1), PriorityOp(1, 1, 2), PriorityOp(2, 2, 1),
      PriorityOp(3, PRIORITY_EXPIRATION + 1, 1) }
ChainWithGap ==
    { PriorityOp(0, 0, 1), PriorityOp(1, 1, 2), PriorityOp(3, 2, 1),
      PriorityOp(4, PRIORITY_EXPIRATION + 1, 1) }
ChainReorged ==
    { PriorityOp(0, 1, 2), PriorityOp(1, 1, 1), PriorityOp(1, 2, 1),
      PriorityOp(2, PRIORITY_EXPIRATION, 3) }
Chains == { ChainContiguous, ChainWithGap, ChainReorged }

Heads == (0..MaxHead) \cup { PRIORITY_EXPIRATION, PRIORITY_EXPIRATION + 1 }

ERR_RATE_LIMIT == RATE_LIMIT_PATTERN
ERR_RATE_LIMIT_EMBEDDED ==
    <<"H","T","T","P",":"," ">> \o RATE_LIMIT_PATTERN \o <<"!">>
ERR_RATE_LIMIT_LOWERCASE ==
    <<"4","2","9"," ","t","o","o"," ","m","a","n","y"," ",
      "r","e","q","u","e","s","t","s">>
ERR_TIMEOUT == <<"t","i","m","e","d"," ","o","u","t">>

ErrorTexts ==
    { ERR_RATE_LIMIT, ERR_RATE_LIMIT_EMBEDDED, ERR_RATE_LIMIT_LOWERCASE,
      ERR_TIMEOUT }

\* multiple_call!: the text of anyhow::bail! after the loop.
ERR_ALL_INTERFACES ==
    <<"A","l","l"," ","i","n","t","e","r","f","a","c","e","s"," ",
      "w","a","s"," ","w","r","o","n","g"," ",
      "p","l","e","a","s","e"," ","t","r","y"," ","a","g","a","i","n">>

\* The errors a single provider behind the multiplexer fails with.
ProviderErrors == { ERR_RATE_LIMIT, ERR_TIMEOUT }

\* The names given to add_client, in the order of the calls.
ClientNames == [i \in 1..MaxClients |-> i]

\* MultiplexerEthereumClient::new followed by n calls of add_client.
add_clients(n) == SubSeq(ClientNames, 1, n)

\* Result<_, anyhow::Error> of a delegated call, and the state before it
\* has returned.
Ok(value) == [kind |-> "Ok", value |-> value]
Err(error) == [kind |-> "Err", error |-> error]
Pending == [kind |-> "Pending"]

\* The events a range query returns: the chain's events inside the requested
\* block range.
EventsInRange(events, from, to) ==
    { op \in events : from <= op.eth_block /\ op.eth_block <= to }

\* Emission order: by block, then by serial id.
Before(a, b) ==
    \/ a.eth_block < b.eth_block
    \/ a.eth_block = b.eth_block /\ a.serial_id < b.serial_id

RECURSIVE EmissionOrder(_)
EmissionOrder(S) ==
    IF S = {} THEN <<>>
    ELSE LET first == CHOOSE a \in S : \A b \in S \ {a} : Before(a, b)
         IN  <<first>> \o EmissionOrder(S \ {first})

(***************************************************************************)
(* Pure helpers of the watcher.                                            *)
(***************************************************************************)
saturating_sub(a, b) == IF a > b THEN a - b ELSE 0

\* get_unconfirmed_ops: the first block of the unconfirmed range.
block_from_number(current_ethereum_block, confirmations) ==
    saturating_sub(current_ethereum_block, confirmations) + 1

\* A variant that takes the head itself for the last accepted block.
new_block_with_accepted_events_head(current_ethereum_block, confirmations) ==
    current_ethereum_block

\* update_eth_state: the last block of the accepted range.
new_block_with_accepted_events(current_ethereum_block, confirmations) ==
    saturating_sub(current_ethereum_block, confirmations)

\* A variant whose range starts one block after the previous bound.
previous_block_with_accepted_events_next(head, confirmations, unprocessed) ==
    saturating_sub(new_block_with_accepted_events(head, confirmations),
                   unprocessed) + 1

\* update_eth_state: the first block of the accepted range.
previous_block_with_accepted_events(head, confirmations, unprocessed) ==
    saturating_sub(new_block_with_accepted_events(head, confirmations),
                   unprocessed)

\* A variant that takes a single new block per poll for granted.
block_difference_one(last_ethereum_block, known_block) == 1

\* process_new_blocks: how many blocks have to be watched.
block_difference(last_ethereum_block, known_block) ==
    saturating_sub(last_ethereum_block, known_block)

EmptyQueue == [id \in {} |-> PriorityOp(0, 0, 0)]

\* HashMap::insert: a later entry replaces an earlier one with the same key.
insert(map, op) ==
    [id \in DOMAIN map \cup {op.serial_id} |->
        IF id = op.serial_id THEN op ELSE map[id]]

\* get_accepted_ops: .map(|op| (op.serial_id, op.into())).collect()
RECURSIVE collect_into(_, _)
collect_into(map, ops) ==
    IF ops = <<>> THEN map
    ELSE collect_into(insert(map, Head(ops)), Tail(ops))

collect(ops) == collect_into(EmptyQueue, ops)

\* received_ops::sift_outdated_ops: keeps the entries that are still within
\* PRIORITY_EXPIRATION blocks of the head.
sift_outdated_ops(priority_queue, head) ==
    [id \in { i \in DOMAIN priority_queue :
                priority_queue[i].eth_block + PRIORITY_EXPIRATION > head } |->
        priority_queue[id]]

\* A variant that adds the chunks of an operation it already holds to the
\* ones of the operation it inserts.
extend_accumulating(priority_queue, accepted) ==
    [id \in DOMAIN priority_queue \cup DOMAIN accepted |->
        IF id \in DOMAIN accepted
        THEN IF id \in DOMAIN priority_queue
             THEN [accepted[id] EXCEPT
                      !.chunks = @ + priority_queue[id].chunks]
             ELSE accepted[id]
        ELSE priority_queue[id]]

\* process_new_blocks: the loop that extends the sifted queue with the
\* accepted operations.
extend(priority_queue, accepted) ==
    [id \in DOMAIN priority_queue \cup DOMAIN accepted |->
        IF id \in DOMAIN accepted THEN accepted[id] ELSE priority_queue[id]]

ETHState_new(last_ethereum_block, priority_queue) ==
    [last_ethereum_block |-> last_ethereum_block,
     priority_queue |-> priority_queue]

ETHState_default == ETHState_new(0, EmptyQueue)

\* A variant that replaces the block number and keeps the old queue.
set_new_state_partial(old_state, new_state) ==
    [new_state EXCEPT !.priority_queue = old_state.priority_queue]

\* set_new_state: the stored state becomes new_state as a whole.
set_new_state(old_state, new_state) == new_state

\* get_priority_requests: the while-let loop.
RECURSIVE priority_requests_from(_, _, _, _)
priority_requests_from(priority_queue, current, used_chunks, max_chunks) ==
    IF current \notin DOMAIN priority_queue THEN <<>>
    ELSE LET op == priority_queue[current]
         IN  IF used_chunks + op.chunks <= max_chunks
             THEN <<op>> \o priority_requests_from(priority_queue,
                                current + 1,
                                used_chunks + op.chunks, max_chunks)
             ELSE <<>>

\* A variant whose budget test is strict.
RECURSIVE priority_requests_strict(_, _, _, _)
priority_requests_strict(priority_queue, current, used_chunks, max_chunks) ==
    IF current \notin DOMAIN priority_queue THEN <<>>
    ELSE LET op == priority_queue[current]
         IN  IF used_chunks + op.chunks < max_chunks
             THEN <<op>> \o priority_requests_strict(priority_queue,
                                current + 1,
                                used_chunks + op.chunks, max_chunks)
             ELSE <<>>

get_priority_requests_strict(priority_queue, first_serial_id, max_chunks) ==
    priority_requests_strict(priority_queue, first_serial_id, 0, max_chunks)

get_priority_requests(priority_queue, first_serial_id, max_chunks) ==
    priority_requests_from(priority_queue, first_serial_id, 0, max_chunks)

\* str::contains
contains(text, pattern) ==
    \E i \in 1..(Len(text) - Len(pattern) + 1) :
        SubSeq(text, i, i + Len(pattern) - 1) = pattern

\* A variant that compares the whole text.
is_backoff_requested_exact(error) == error = RATE_LIMIT_PATTERN

is_backoff_requested(error) == contains(error, RATE_LIMIT_PATTERN)

Working == [kind |-> "Working"]
Backoff(until) == [kind |-> "Backoff", until |-> until]

enter_backoff_mode(time) == Backoff(time + RATE_LIMIT_DELAY)

\* A variant that never disables polling.
polling_allowed_always(m, time) == TRUE

\* polling_allowed: the answer, and the mode it leaves behind.
polling_allowed(m, time) ==
    IF m.kind = "Working" THEN TRUE ELSE time >= m.until

\* A variant that allows polling again without leaving the backoff mode.
mode_after_polling_allowed_kept(m, time) == m

mode_after_polling_allowed(m, time) ==
    IF m.kind = "Backoff" /\ time >= m.until THEN Working ELSE m

(***************************************************************************)
(* State.                                                                  *)
(***************************************************************************)
VARIABLES
    chain,                      \* the priority events the provider serves
    number_of_confirmations_for_event, \* EthWatch field
    eth_state,                  \* EthWatch field: the Confirmation State
    mode,                       \* EthWatch field: Working or Backoff(until)
    pc,                         \* where EthWatch::run stands
    caller,                     \* which function runs update_eth_state
    current_ethereum_block,     \* the head of the running cycle
    accepted_priority_queue,    \* get_accepted_ops: the collected map
    delay_until,                \* end of the startup loop's delay_for
    eth_watch_req,              \* the request channel
    now,                        \* the clock behind Instant::now()
    \* History, kept to state the properties below.
    outcome,                    \* how the last dequeued message ended
    state_before,               \* eth_state when that message was dequeued
    mode_before,                \* mode when that message was dequeued
    calls,                      \* provider calls made for that message
    last_error,                 \* text of the error that ended the poll
    built_state,                \* the last value passed to set_new_state
    reply,                      \* the last reply sent on a resp slot
    accepted_window,            \* the last accepted range queried
    hits,                       \* per block: accepted windows of completed
                                \* polls that contain it (counted up to 2)
    initial_block,              \* last_ethereum_block left by the restore
    steady_heads,               \* no poll saw a head below last_ethereum_block
                                \* and none was abandoned after it got a head
    \* MultiplexerEthereumClient and the delegated call in progress.
    clients,                    \* the provider list, in add_client order
    client_index,               \* multiple_call!: providers the loop has passed
    call_result,                \* what the delegated call returned
    invoked,                    \* history: the providers invoked by the call of
                                \* the present message, with their results
    encoded,                    \* history: what the last encode_tx_data did
    \* The block ranges of one update_eth_state, at the width of the word.
    ranges                      \* the bounds computed, or the panic

program_vars ==
    <<chain, number_of_confirmations_for_event, eth_state, mode, pc, caller,
      current_ethereum_block, accepted_priority_queue, delay_until,
      eth_watch_req, now>>

history_vars ==
    <<outcome, state_before, mode_before, calls, last_error, built_state,
      reply, accepted_window, hits, initial_block, steady_heads>>

gateway_vars == <<clients, client_index, call_result, invoked, encoded>>

range_vars == <<ranges>>

vars == <<program_vars, history_vars, gateway_vars, range_vars>>

UnconfirmedSteps ==
    {"unconfirmed_priority", "unconfirmed_token", "unconfirmed_register"}
AcceptedSteps ==
    {"accepted_priority", "accepted_token", "accepted_register"}
QuerySteps == UnconfirmedSteps \cup AcceptedSteps

\* A variant that queries the accepted priority operations before the
\* unconfirmed tokens.
NextStep_interleaved(step) ==
    CASE step = "unconfirmed_priority" -> "accepted_priority"
      [] step = "accepted_priority" -> "unconfirmed_token"
      [] step = "unconfirmed_token" -> "unconfirmed_register"
      [] step = "unconfirmed_register" -> "accepted_token"
      [] step = "accepted_token" -> "accepted_register"

\* update_eth_state: get_unconfirmed_ops, then get_accepted_ops, each with
\* its three queries in turn.
NextStep(step) ==
    CASE step = "unconfirmed_priority" -> "unconfirmed_token"
      [] step = "unconfirmed_token" -> "unconfirmed_register"
      [] step = "unconfirmed_register" -> "accepted_priority"
      [] step = "accepted_priority" -> "accepted_token"
      [] step = "accepted_token" -> "accepted_register"

NoWindow == [from |-> 1, to |-> 0]
NoReply == [sent |-> FALSE]
NoError == <<>>

\* restore_state_from_eth passes PRIORITY_EXPIRATION to update_eth_state,
\* process_new_blocks passes block_difference.
unprocessed_blocks_amount ==
    IF caller = "restore_state_from_eth"
    THEN PRIORITY_EXPIRATION
    ELSE block_difference(current_ethereum_block,
                          eth_state.last_ethereum_block)

AcceptedFrom ==
    previous_block_with_accepted_events(current_ethereum_block,
        number_of_confirmations_for_event, unprocessed_blocks_amount)
AcceptedTo ==
    new_block_with_accepted_events(current_ethereum_block,
        number_of_confirmations_for_event)

\* BlockNumber, the bounds of a range query.
Number(n) == [kind |-> "Number", number |-> n]
Latest == [kind |-> "Latest"]

\* get_unconfirmed_ops: block_from and block_to of its three queries.
UnconfirmedRange ==
    [from |-> Number(block_from_number(current_ethereum_block,
                                       number_of_confirmations_for_event)),
     to |-> Latest]

\* get_accepted_ops: the bounds of its three queries.
AcceptedRange == [from |-> Number(AcceptedFrom), to |-> Number(AcceptedTo)]

\* encode_tx_data: its outcomes, and the state before any call of it.
Returned(value) == [kind |-> "Returned", value |-> value]
Panicked(message) == [kind |-> "Panicked", message |-> message]
NotEncoded == [kind |-> "NotEncoded"]

\* update_eth_state has computed no bounds.
NoRanges == [kind |-> "NoRanges"]

\* No delegated call is in progress and encode_tx_data was not called.
GatewayIdle ==
    /\ client_index = 0
    /\ call_result = Pending
    /\ invoked = <<>>
    /\ encoded = NotEncoded

\* EthWatch::new, and the channel as main() creates it.
WatcherInit ==
    /\ chain \in Chains
    /\ number_of_confirmations_for_event \in 0..MaxConf
    /\ eth_state = ETHState_default
    /\ mode = Working
    /\ pc = "startup"
    /\ caller = "restore_state_from_eth"
    /\ current_ethereum_block = 0
    /\ accepted_priority_queue = EmptyQueue
    /\ delay_until = 0
    /\ eth_watch_req = <<>>
    /\ now = 0
    /\ outcome = "none"
    /\ state_before = ETHState_default
    /\ mode_before = Working
    /\ calls = 0
    /\ last_error = NoError
    /\ built_state = ETHState_default
    /\ reply = NoReply
    /\ accepted_window = NoWindow
    /\ hits = [b \in Heads |-> 0]
    /\ initial_block = 0
    /\ steady_heads = TRUE

\* The watcher with a client that is injected directly: the multiplexer has
\* no provider and is never called.
Init ==
    /\ WatcherInit
    /\ clients = add_clients(0)
    /\ GatewayIdle
    /\ ranges = NoRanges

(***************************************************************************)
(* The environment: the clock, the timer of main() and the callers that    *)
(* ask for priority operations.                                            *)
(***************************************************************************)
Tick ==
    /\ now + TimeStep <= MaxTime
    /\ now' = now + TimeStep
    /\ UNCHANGED <<chain, number_of_confirmations_for_event, eth_state, mode,
                   pc, caller, current_ethereum_block, accepted_priority_queue,
                   delay_until, eth_watch_req, history_vars,
                   gateway_vars, range_vars>>

Send(request) ==
    /\ Len(eth_watch_req) < MaxQueue
    /\ eth_watch_req' = Append(eth_watch_req, request)
    /\ UNCHANGED <<chain, number_of_confirmations_for_event, eth_state, mode,
                   pc, caller, current_ethereum_block, accepted_priority_queue,
                   delay_until, now, history_vars, gateway_vars, range_vars>>

SendPollETHNode == Send("PollETHNode")

SendGetPriorityQueueOps == Send("GetPriorityQueueOps")

(***************************************************************************)
(* EthWatch::run, startup: the block_number loop.                          *)
(***************************************************************************)
\* run: block_number returned Ok(block), the loop breaks.
startup_block_number_ok(block) ==
    /\ pc = "startup"
    /\ current_ethereum_block' = block
    /\ pc' = "unconfirmed_priority"
    /\ UNCHANGED <<chain, number_of_confirmations_for_event, eth_state, mode,
                   caller, accepted_priority_queue, delay_until, eth_watch_req,
                   now, outcome, state_before, mode_before, calls, last_error,
                   built_state, reply, accepted_window, hits, initial_block,
                   steady_heads>>

StartupBlockNumberOk ==
    /\ \E block \in Heads : startup_block_number_ok(block)
    /\ UNCHANGED <<gateway_vars, range_vars>>

\* A variant that gives up at the first error.
startup_block_number_err_fatal(error) ==
    /\ pc = "startup"
    /\ last_error' = error
    /\ delay_until' = now + RATE_LIMIT_DELAY
    /\ pc' = "panicked"
    /\ UNCHANGED <<chain, number_of_confirmations_for_event, eth_state, mode,
                   caller, current_ethereum_block, accepted_priority_queue,
                   eth_watch_req, now, outcome, state_before, mode_before,
                   calls, built_state, reply, accepted_window, hits,
                   initial_block, steady_heads>>

\* run: block_number returned Err(error), which is logged before delay_for.
startup_block_number_err(error) ==
    /\ pc = "startup"
    /\ last_error' = error
    /\ delay_until' = now + RATE_LIMIT_DELAY
    /\ pc' = "startup_delay"
    /\ UNCHANGED <<chain, number_of_confirmations_for_event, eth_state, mode,
                   caller, current_ethereum_block, accepted_priority_queue,
                   eth_watch_req, now, outcome, state_before, mode_before,
                   calls, built_state, reply, accepted_window, hits,
                   initial_block, steady_heads>>

StartupBlockNumberErr ==
    /\ \E error \in ErrorTexts : startup_block_number_err(error)
    /\ UNCHANGED <<gateway_vars, range_vars>>

StartupDelayElapsed ==
    /\ pc = "startup_delay"
    /\ now >= delay_until
    /\ pc' = "startup"
    /\ last_error' = NoError
    /\ UNCHANGED <<chain, number_of_confirmations_for_event, eth_state, mode,
                   caller, current_ethereum_block, accepted_priority_queue,
                   delay_until, eth_watch_req, now, outcome, state_before,
                   mode_before, calls, built_state, reply, accepted_window,
                   hits, initial_block, steady_heads,
                   gateway_vars, range_vars>>

(***************************************************************************)
(* update_eth_state, shared by restore_state_from_eth and                  *)
(* process_new_blocks: three queries over the unconfirmed range, then      *)
(* three over the accepted range.  Every call is an await of its own.      *)
(***************************************************************************)
\* get_unconfirmed_ops: a query returned; its events are only reported.
UnconfirmedQueryOk ==
    /\ pc \in UnconfirmedSteps
    /\ pc' = NextStep(pc)
    /\ calls' = calls + 1
    /\ UNCHANGED <<chain, number_of_confirmations_for_event, eth_state, mode,
                   caller, current_ethereum_block, accepted_priority_queue,
                   delay_until, eth_watch_req, now, outcome, state_before,
                   mode_before, last_error, built_state, reply,
                   accepted_window, hits, initial_block, steady_heads,
                   gateway_vars, range_vars>>

\* A variant of AcceptedPriorityOk that inserts the accepted operations into
\* the stored queue at once.
AcceptedPriorityOk_InPlace ==
    /\ pc = "accepted_priority"
    /\ accepted_priority_queue' =
          collect(EmissionOrder(EventsInRange(chain, AcceptedFrom,
                                              AcceptedTo)))
    /\ eth_state' =
          [eth_state EXCEPT !.priority_queue =
              extend(eth_state.priority_queue, accepted_priority_queue')]
    /\ accepted_window' = [from |-> AcceptedFrom, to |-> AcceptedTo]
    /\ pc' = NextStep(pc)
    /\ calls' = calls + 1
    /\ UNCHANGED <<chain, number_of_confirmations_for_event, mode, caller,
                   current_ethereum_block, delay_until, eth_watch_req, now,
                   outcome, state_before, mode_before, last_error, built_state,
                   reply, hits, initial_block, steady_heads,
                   gateway_vars, range_vars>>

\* get_accepted_ops: get_priority_op_events returned and is collected.
AcceptedPriorityOk ==
    /\ pc = "accepted_priority"
    /\ accepted_priority_queue' =
          collect(EmissionOrder(EventsInRange(chain, AcceptedFrom,
                                              AcceptedTo)))
    /\ accepted_window' = [from |-> AcceptedFrom, to |-> AcceptedTo]
    /\ pc' = NextStep(pc)
    /\ calls' = calls + 1
    /\ UNCHANGED <<chain, number_of_confirmations_for_event, eth_state, mode,
                   caller, current_ethereum_block, delay_until, eth_watch_req,
                   now, outcome, state_before, mode_before, last_error,
                   built_state, reply, hits, initial_block, steady_heads,
                   gateway_vars, range_vars>>

\* get_accepted_ops: get_new_token_events returned.
AcceptedTokenOk ==
    /\ pc = "accepted_token"
    /\ pc' = NextStep(pc)
    /\ calls' = calls + 1
    /\ UNCHANGED <<chain, number_of_confirmations_for_event, eth_state, mode,
                   caller, current_ethereum_block, accepted_priority_queue,
                   delay_until, eth_watch_req, now, outcome, state_before,
                   mode_before, last_error, built_state, reply,
                   accepted_window, hits, initial_block, steady_heads,
                   gateway_vars, range_vars>>

(***************************************************************************)
(* restore_state_from_eth.                                                 *)
(***************************************************************************)
restored_state(last_ethereum_block, accepted) ==
    ETHState_new(last_ethereum_block, accepted)

\* The last query returned: the state is replaced and run enters its loop.
RestoreStateFromEthOk ==
    /\ pc = "accepted_register"
    /\ caller = "restore_state_from_eth"
    /\ LET new_state == restored_state(current_ethereum_block,
                                       accepted_priority_queue)
       IN  /\ eth_state' = set_new_state(eth_state, new_state)
           /\ built_state' = new_state
    /\ initial_block' = current_ethereum_block
    /\ accepted_priority_queue' = EmptyQueue
    /\ pc' = "recv"
    /\ calls' = 0
    /\ accepted_window' = NoWindow
    /\ UNCHANGED <<chain, number_of_confirmations_for_event, mode, caller,
                   current_ethereum_block, delay_until, eth_watch_req, now,
                   outcome, state_before, mode_before, last_error, reply, hits,
                   steady_heads, gateway_vars, range_vars>>

\* A variant that logs the error and enters the message loop.
RestoreStateFromEthErr_logged ==
    /\ pc \in QuerySteps
    /\ caller = "restore_state_from_eth"
    /\ \E error \in ErrorTexts : last_error' = error
    /\ accepted_priority_queue' = EmptyQueue
    /\ pc' = "recv"
    /\ calls' = calls + 1
    /\ UNCHANGED <<chain, number_of_confirmations_for_event, eth_state, mode,
                   caller, current_ethereum_block, delay_until, eth_watch_req,
                   now, outcome, state_before, mode_before, built_state, reply,
                   accepted_window, hits, initial_block, steady_heads,
                   gateway_vars, range_vars>>

\* A query failed: .expect("Unable to restore ETHWatcher state") panics.
RestoreStateFromEthErr ==
    /\ pc \in QuerySteps
    /\ caller = "restore_state_from_eth"
    /\ \E error \in ErrorTexts : last_error' = error
    /\ accepted_priority_queue' = EmptyQueue
    /\ pc' = "panicked"
    /\ calls' = calls + 1
    /\ UNCHANGED <<chain, number_of_confirmations_for_event, eth_state, mode,
                   caller, current_ethereum_block, delay_until, eth_watch_req,
                   now, outcome, state_before, mode_before, built_state, reply,
                   accepted_window, hits, initial_block, steady_heads,
                   gateway_vars, range_vars>>

(***************************************************************************)
(* The message loop of run: PollETHNode.                                   *)
(***************************************************************************)
\* A variant in which a poll request skipped during the backoff starts the
\* delay again.
RecvPollETHNodeSkipped_extending ==
    /\ pc = "recv"
    /\ eth_watch_req # <<>>
    /\ Head(eth_watch_req) = "PollETHNode"
    /\ ~polling_allowed(mode, now)
    /\ eth_watch_req' = Tail(eth_watch_req)
    /\ mode' = enter_backoff_mode(now)
    /\ pc' = "handled"
    /\ outcome' = "skipped"
    /\ state_before' = eth_state
    /\ mode_before' = mode
    /\ calls' = 0
    /\ last_error' = NoError
    /\ reply' = NoReply
    /\ UNCHANGED <<chain, number_of_confirmations_for_event, eth_state, caller,
                   current_ethereum_block, accepted_priority_queue,
                   delay_until, now, built_state, accepted_window, hits,
                   initial_block, steady_heads, gateway_vars, range_vars>>

\* The message is dequeued while polling is disabled: continue.
RecvPollETHNodeSkipped ==
    /\ pc = "recv"
    /\ eth_watch_req # <<>>
    /\ Head(eth_watch_req) = "PollETHNode"
    /\ ~polling_allowed(mode, now)
    /\ eth_watch_req' = Tail(eth_watch_req)
    /\ mode' = mode_after_polling_allowed(mode, now)
    /\ pc' = "handled"
    /\ outcome' = "skipped"
    /\ state_before' = eth_state
    /\ mode_before' = mode
    /\ calls' = 0
    /\ last_error' = NoError
    /\ reply' = NoReply
    /\ UNCHANGED <<chain, number_of_confirmations_for_event, eth_state, caller,
                   current_ethereum_block, accepted_priority_queue,
                   delay_until, now, built_state, accepted_window, hits,
                   initial_block, steady_heads, gateway_vars, range_vars>>

\* The message is dequeued and polling is allowed: poll_eth_node starts.
RecvPollETHNode ==
    /\ pc = "recv"
    /\ eth_watch_req # <<>>
    /\ Head(eth_watch_req) = "PollETHNode"
    /\ polling_allowed(mode, now)
    /\ eth_watch_req' = Tail(eth_watch_req)
    /\ mode' = mode_after_polling_allowed(mode, now)
    /\ caller' = "process_new_blocks"
    /\ pc' = "block_number"
    /\ outcome' = "polling"
    /\ state_before' = eth_state
    /\ mode_before' = mode
    /\ calls' = 0
    /\ last_error' = NoError
    /\ reply' = NoReply
    /\ UNCHANGED <<chain, number_of_confirmations_for_event, eth_state,
                   current_ethereum_block, accepted_priority_queue,
                   delay_until, now, built_state, accepted_window, hits,
                   initial_block, steady_heads, gateway_vars, range_vars>>

\* poll_eth_node: block_number returned a head that is not new.
poll_no_new_blocks(last_block_number) ==
    /\ pc = "block_number"
    /\ ~(last_block_number > eth_state.last_ethereum_block)
    /\ steady_heads' =
          (steady_heads
           /\ last_block_number >= eth_state.last_ethereum_block)
    /\ pc' = "handled"
    /\ outcome' = "unchanged"
    /\ calls' = calls + 1
    /\ UNCHANGED <<chain, number_of_confirmations_for_event, eth_state, mode,
                   caller, current_ethereum_block, accepted_priority_queue,
                   delay_until, eth_watch_req, now, state_before, mode_before,
                   last_error, built_state, reply, accepted_window, hits,
                   initial_block>>

PollNoNewBlocks ==
    /\ \E last_block_number \in Heads :
        poll_no_new_blocks(last_block_number)
    /\ UNCHANGED <<gateway_vars, range_vars>>

\* A variant that also processes a head equal to the known one.
poll_new_blocks_or_same(last_block_number) ==
    /\ pc = "block_number"
    /\ last_block_number >= eth_state.last_ethereum_block
    /\ current_ethereum_block' = last_block_number
    /\ pc' = "unconfirmed_priority"
    /\ calls' = calls + 1
    /\ UNCHANGED <<chain, number_of_confirmations_for_event, eth_state, mode,
                   caller, accepted_priority_queue, delay_until, eth_watch_req,
                   now, outcome, state_before, mode_before, last_error,
                   built_state, reply, accepted_window, hits, initial_block,
                   steady_heads>>

\* A variant that processes every head that differs from the known one.
poll_new_blocks_any(last_block_number) ==
    /\ pc = "block_number"
    /\ last_block_number # eth_state.last_ethereum_block
    /\ current_ethereum_block' = last_block_number
    /\ pc' = "unconfirmed_priority"
    /\ calls' = calls + 1
    /\ UNCHANGED <<chain, number_of_confirmations_for_event, eth_state, mode,
                   caller, accepted_priority_queue, delay_until, eth_watch_req,
                   now, outcome, state_before, mode_before, last_error,
                   built_state, reply, accepted_window, hits, initial_block,
                   steady_heads>>

\* poll_eth_node: block_number returned a new head; process_new_blocks runs
\* update_eth_state.
poll_new_blocks(last_block_number) ==
    /\ pc = "block_number"
    /\ last_block_number > eth_state.last_ethereum_block
    /\ current_ethereum_block' = last_block_number
    /\ pc' = "unconfirmed_priority"
    /\ calls' = calls + 1
    /\ UNCHANGED <<chain, number_of_confirmations_for_event, eth_state, mode,
                   caller, accepted_priority_queue, delay_until, eth_watch_req,
                   now, outcome, state_before, mode_before, last_error,
                   built_state, reply, accepted_window, hits, initial_block,
                   steady_heads>>

PollNewBlocks ==
    /\ \E last_block_number \in Heads : poll_new_blocks(last_block_number)
    /\ UNCHANGED <<gateway_vars, range_vars>>

\* process_new_blocks after update_eth_state: sift, extend, replace.
processed_state(state, last_ethereum_block, accepted) ==
    ETHState_new(last_ethereum_block,
        extend(sift_outdated_ops(state.priority_queue, last_ethereum_block),
               accepted))

\* The last query of the poll returned: the state is replaced.
ProcessNewBlocksOk ==
    /\ pc = "accepted_register"
    /\ caller = "process_new_blocks"
    /\ LET new_state == processed_state(eth_state, current_ethereum_block,
                                        accepted_priority_queue)
       IN  /\ eth_state' = set_new_state(eth_state, new_state)
           /\ built_state' = new_state
    /\ hits' = [b \in Heads |->
                  IF accepted_window.from <= b /\ b <= accepted_window.to
                     /\ hits[b] < 2
                  THEN hits[b] + 1 ELSE hits[b]]
    /\ accepted_priority_queue' = EmptyQueue
    /\ pc' = "handled"
    /\ outcome' = "replaced"
    /\ calls' = calls + 1
    /\ UNCHANGED <<chain, number_of_confirmations_for_event, mode, caller,
                   current_ethereum_block, delay_until, eth_watch_req, now,
                   state_before, mode_before, last_error, reply,
                   accepted_window, initial_block, steady_heads,
                   gateway_vars, range_vars>>

\* Any of the seven calls of the poll failed: the error reaches run, which
\* enters the backoff mode or only logs it.
poll_err(error) ==
    /\ pc \in {"block_number"} \cup QuerySteps
    /\ caller = "process_new_blocks"
    /\ last_error' = error
    /\ mode' = IF is_backoff_requested(error)
               THEN enter_backoff_mode(now)
               ELSE mode
    /\ pc' = "handled"
    /\ outcome' = "abandoned"
    /\ steady_heads' = (steady_heads /\ pc = "block_number")
    /\ calls' = calls + 1
    /\ UNCHANGED <<chain, number_of_confirmations_for_event, eth_state, caller,
                   current_ethereum_block, accepted_priority_queue,
                   delay_until, eth_watch_req, now, state_before, mode_before,
                   built_state, reply, accepted_window, hits, initial_block>>

PollErr ==
    /\ \E error \in ErrorTexts : poll_err(error)
    /\ UNCHANGED <<gateway_vars, range_vars>>

(***************************************************************************)
(* The message loop of run: GetPriorityQueueOps.                           *)
(***************************************************************************)
\* A variant that answers a request while a poll awaits the provider.
RecvGetPriorityQueueOps_concurrent ==
    /\ pc \in {"recv", "block_number"} \cup QuerySteps
    /\ pc # "recv" => caller = "process_new_blocks"
    /\ eth_watch_req # <<>>
    /\ Head(eth_watch_req) = "GetPriorityQueueOps"
    /\ eth_watch_req' = Tail(eth_watch_req)
    /\ \E op_start_id \in 0..MaxStartId, max_chunks \in 0..MaxChunks :
        reply' = [sent |-> TRUE,
                  op_start_id |-> op_start_id,
                  max_chunks |-> max_chunks,
                  ops |-> get_priority_requests(eth_state.priority_queue,
                                                op_start_id, max_chunks)]
    /\ pc' = IF pc = "recv" THEN "handled" ELSE pc
    /\ outcome' = IF pc = "recv" THEN "replied" ELSE outcome
    /\ state_before' = IF pc = "recv" THEN eth_state ELSE state_before
    /\ mode_before' = IF pc = "recv" THEN mode ELSE mode_before
    /\ calls' = IF pc = "recv" THEN 0 ELSE calls
    /\ last_error' = NoError
    /\ UNCHANGED <<chain, number_of_confirmations_for_event, eth_state, mode,
                   caller, current_ethereum_block, accepted_priority_queue,
                   delay_until, now, built_state, accepted_window, hits,
                   initial_block, steady_heads, gateway_vars, range_vars>>

\* The reply of a request whose receiver was dropped: nothing was sent.
Discarded == [sent |-> FALSE, discarded |-> TRUE]

\* oneshot::Sender::send: Err(value) when the receiver was dropped.
resp_send(value, receiver_dropped) ==
    IF receiver_dropped THEN [kind |-> "Err", value |-> value]
    ELSE [kind |-> "Ok"]

\* A variant that unwraps the result of the send.
unwrap_or_default_strict(result) ==
    IF result.kind = "Ok" THEN "handled" ELSE "panicked"

\* Result::unwrap_or_default on the result of the send: run goes on either
\* way.
unwrap_or_default(result) == "handled"

\* A variant that answers in the mode Working only.
get_priority_queue_ops_working(op_start_id, max_chunks, receiver_dropped) ==
    LET ops == get_priority_requests(eth_state.priority_queue,
                                     op_start_id, max_chunks)
        sent == resp_send(ops, receiver_dropped)
    IN  /\ reply' = IF mode # Working THEN NoReply
                    ELSE IF sent.kind = "Ok"
                    THEN [sent |-> TRUE,
                          op_start_id |-> op_start_id,
                          max_chunks |-> max_chunks,
                          ops |-> ops]
                    ELSE Discarded
        /\ pc' = unwrap_or_default(sent)

\* The GetPriorityQueueOps arm of run: the reply is computed and sent on the
\* request's resp slot; a reply whose receiver was dropped is dropped with
\* the Err that carries it.
get_priority_queue_ops(op_start_id, max_chunks, receiver_dropped) ==
    LET ops == get_priority_requests(eth_state.priority_queue,
                                     op_start_id, max_chunks)
        sent == resp_send(ops, receiver_dropped)
    IN  /\ reply' = IF sent.kind = "Ok"
                    THEN [sent |-> TRUE,
                          op_start_id |-> op_start_id,
                          max_chunks |-> max_chunks,
                          ops |-> ops]
                    ELSE Discarded
        /\ pc' = unwrap_or_default(sent)

RecvGetPriorityQueueOps ==
    /\ pc = "recv"
    /\ eth_watch_req # <<>>
    /\ Head(eth_watch_req) = "GetPriorityQueueOps"
    /\ eth_watch_req' = Tail(eth_watch_req)
    /\ \E op_start_id \in 0..MaxStartId, max_chunks \in 0..MaxChunks,
          receiver_dropped \in BOOLEAN :
        get_priority_queue_ops(op_start_id, max_chunks, receiver_dropped)
    /\ outcome' = "replied"
    /\ state_before' = eth_state
    /\ mode_before' = mode
    /\ calls' = 0
    /\ last_error' = NoError
    /\ UNCHANGED <<chain, number_of_confirmations_for_event, eth_state, mode,
                   caller, current_ethereum_block, accepted_priority_queue,
                   delay_until, now, built_state, accepted_window, hits,
                   initial_block, steady_heads, gateway_vars, range_vars>>

\* The handler is done: run goes back to eth_watch_req.next().
NextRequest ==
    /\ pc = "handled"
    /\ pc' = "recv"
    /\ outcome' = "none"
    /\ state_before' = ETHState_default
    /\ mode_before' = Working
    /\ calls' = 0
    /\ last_error' = NoError
    /\ reply' = NoReply
    /\ accepted_window' = NoWindow
    /\ current_ethereum_block' = 0
    /\ accepted_priority_queue' = EmptyQueue
    /\ UNCHANGED <<chain, number_of_confirmations_for_event, eth_state, mode,
                   caller, delay_until, eth_watch_req, now, built_state, hits,
                   initial_block, steady_heads>>
    /\ client_index' = 0
    /\ call_result' = Pending
    /\ invoked' = <<>>
    /\ UNCHANGED <<clients, encoded, range_vars>>

Next ==
    \/ Tick
    \/ SendPollETHNode
    \/ SendGetPriorityQueueOps
    \/ StartupBlockNumberOk
    \/ StartupBlockNumberErr
    \/ StartupDelayElapsed
    \/ UnconfirmedQueryOk
    \/ AcceptedPriorityOk
    \/ AcceptedTokenOk
    \/ RestoreStateFromEthOk
    \/ RestoreStateFromEthErr
    \/ RecvPollETHNodeSkipped
    \/ RecvPollETHNode
    \/ PollNoNewBlocks
    \/ PollNewBlocks
    \/ ProcessNewBlocksOk
    \/ PollErr
    \/ RecvGetPriorityQueueOps
    \/ NextRequest

Spec == Init /\ [][Next]_vars

(***************************************************************************)
(* Fairness: the clock advances, the timer of main() keeps sending         *)
(* PollETHNode (a sender of the channel always gets its slot in the end),  *)
(* provider calls return and the watcher keeps running.                    *)
(***************************************************************************)
WatcherStep ==
    \/ StartupBlockNumberOk
    \/ StartupBlockNumberErr
    \/ StartupDelayElapsed
    \/ UnconfirmedQueryOk
    \/ AcceptedPriorityOk
    \/ AcceptedTokenOk
    \/ RestoreStateFromEthOk
    \/ RestoreStateFromEthErr
    \/ RecvPollETHNodeSkipped
    \/ RecvPollETHNode
    \/ PollNoNewBlocks
    \/ PollNewBlocks
    \/ ProcessNewBlocksOk
    \/ PollErr
    \/ RecvGetPriorityQueueOps
    \/ NextRequest

\* The backoff mode does not depend on the events served: one chain and one
\* confirmation depth are enough here.
LiveInit ==
    /\ Init
    /\ chain = ChainContiguous
    /\ number_of_confirmations_for_event = MaxConf

LiveSpec ==
    /\ LiveInit
    /\ [][Next]_vars
    /\ WF_vars(Tick)
    /\ SF_vars(SendPollETHNode)
    /\ WF_vars(WatcherStep)

(***************************************************************************)
(* The watcher behind MultiplexerEthereumClient: block_number, at startup  *)
(* and in poll_eth_node, is delegated by multiple_call! to the providers   *)
(* of the list, one await per provider.  The range queries are answered    *)
(* as above.                                                               *)
(***************************************************************************)
BlockNumberSites == {"startup", "block_number"}

Invocation(name, result) == [name |-> name, result |-> result]

\* A variant that tries the first provider a second time.
multiple_call_Err_retry ==
    /\ pc \in BlockNumberSites
    /\ call_result = Pending
    /\ client_index < Len(clients)
    /\ \E error \in ProviderErrors :
        invoked' = Append(invoked,
                          Invocation(clients[client_index + 1], Err(error)))
    /\ client_index' = IF invoked = <<>> THEN client_index
                       ELSE client_index + 1
    /\ UNCHANGED <<program_vars, history_vars, range_vars, clients,
                   call_result, encoded>>

\* multiple_call!: the provider the loop stands at returned Err, which is
\* logged with the provider's name; the loop goes on.
multiple_call_Err ==
    /\ pc \in BlockNumberSites
    /\ call_result = Pending
    /\ client_index < Len(clients)
    /\ \E error \in ProviderErrors :
        invoked' = Append(invoked,
                          Invocation(clients[client_index + 1], Err(error)))
    /\ client_index' = client_index + 1
    /\ UNCHANGED <<program_vars, history_vars, range_vars, clients,
                   call_result, encoded>>

\* A variant that walks the list from its end.
multiple_call_Ok_reversed ==
    /\ pc \in BlockNumberSites
    /\ call_result = Pending
    /\ client_index < Len(clients)
    /\ \E res \in Heads :
        /\ invoked' = Append(invoked,
                             Invocation(clients[Len(clients) - client_index],
                                        Ok(res)))
        /\ call_result' = Ok(res)
    /\ client_index' = client_index + 1
    /\ UNCHANGED <<program_vars, history_vars, range_vars, clients, encoded>>

\* multiple_call!: the provider the loop stands at returned Ok(res):
\* return Ok(res).
multiple_call_Ok ==
    /\ pc \in BlockNumberSites
    /\ call_result = Pending
    /\ client_index < Len(clients)
    /\ \E res \in Heads :
        /\ invoked' = Append(invoked,
                             Invocation(clients[client_index + 1], Ok(res)))
        /\ call_result' = Ok(res)
    /\ client_index' = client_index + 1
    /\ UNCHANGED <<program_vars, history_vars, range_vars, clients, encoded>>

\* A variant that fails with the error of the last provider.
multiple_call_bail_last ==
    /\ pc \in BlockNumberSites
    /\ call_result = Pending
    /\ client_index = Len(clients)
    /\ call_result' = IF invoked = <<>> THEN Err(ERR_ALL_INTERFACES)
                      ELSE invoked[Len(invoked)].result
    /\ UNCHANGED <<program_vars, history_vars, range_vars, clients,
                   client_index, invoked, encoded>>

\* multiple_call!: the loop is over: anyhow::bail!.
multiple_call_bail ==
    /\ pc \in BlockNumberSites
    /\ call_result = Pending
    /\ client_index = Len(clients)
    /\ call_result' = Err(ERR_ALL_INTERFACES)
    /\ UNCHANGED <<program_vars, history_vars, range_vars, clients,
                   client_index, invoked, encoded>>

\* The functions and parameters encode_tx_data is called with.
Funcs == {"func"}
Params == {0, 1}

\* ETHDirectClient::encode_tx_data of one provider: the encoding names the
\* provider that made it, the function and the parameters.
client_encode_tx_data(name, func, params) ==
    [client |-> name, func |-> func, params |-> params]

\* A variant that returns no bytes when the list is empty.
encode_tx_data_or_default(self_clients, func, params) ==
    IF self_clients = <<>>
    THEN Returned(<<>>)
    ELSE Returned(client_encode_tx_data(Head(self_clients), func, params))

\* MultiplexerEthereumClient::encode_tx_data: clients.first().expect(..),
\* then the encoder of that provider.
encode_tx_data(self_clients, func, params) ==
    IF self_clients = <<>>
    THEN Panicked("Should be exactly one client")
    ELSE Returned(client_encode_tx_data(Head(self_clients), func, params))

\* A caller of the gateway encodes a transaction; the call is synchronous
\* and reads the provider list only.
EncodeTxData ==
    /\ \E func \in Funcs, params \in Params :
        encoded' = encode_tx_data(clients, func, params)
    /\ UNCHANGED <<program_vars, history_vars, range_vars, clients,
                   client_index, call_result, invoked>>

\* The delegated call has returned to the watcher.
call_returned ==
    /\ client_index' = 0
    /\ call_result' = Pending
    /\ UNCHANGED <<clients, encoded, range_vars>>

GatewayStartupBlockNumberOk ==
    /\ call_result.kind = "Ok"
    /\ startup_block_number_ok(call_result.value)
    /\ call_returned
    /\ invoked' = <<>>

GatewayStartupBlockNumberErr ==
    /\ call_result.kind = "Err"
    /\ startup_block_number_err(call_result.error)
    /\ call_returned
    /\ invoked' = <<>>

GatewayPollNoNewBlocks ==
    /\ call_result.kind = "Ok"
    /\ poll_no_new_blocks(call_result.value)
    /\ call_returned
    /\ UNCHANGED invoked

GatewayPollNewBlocks ==
    /\ call_result.kind = "Ok"
    /\ poll_new_blocks(call_result.value)
    /\ call_returned
    /\ invoked' = <<>>

GatewayPollErr ==
    /\ pc = "block_number"
    /\ call_result.kind = "Err"
    /\ poll_err(call_result.error)
    /\ call_returned
    /\ UNCHANGED invoked

\* A range query of the poll failed.
PollQueryErr ==
    /\ pc \in QuerySteps
    /\ PollErr

\* MultiplexerEthereumClient::new and up to MaxClients calls of add_client;
\* one chain and one confirmation depth.
GatewayInit ==
    /\ WatcherInit
    /\ chain = ChainContiguous
    /\ number_of_confirmations_for_event = MaxConf
    /\ clients \in { add_clients(n) : n \in 0..MaxClients }
    /\ GatewayIdle
    /\ ranges = NoRanges

GatewayNext ==
    \/ Tick
    \/ SendPollETHNode
    \/ SendGetPriorityQueueOps
    \/ multiple_call_Err
    \/ multiple_call_Ok
    \/ multiple_call_bail
    \/ GatewayStartupBlockNumberOk
    \/ GatewayStartupBlockNumberErr
    \/ StartupDelayElapsed
    \/ UnconfirmedQueryOk
    \/ AcceptedPriorityOk
    \/ AcceptedTokenOk
    \/ RestoreStateFromEthOk
    \/ RestoreStateFromEthErr
    \/ RecvPollETHNodeSkipped
    \/ RecvPollETHNode
    \/ GatewayPollNoNewBlocks
    \/ GatewayPollNewBlocks
    \/ ProcessNewBlocksOk
    \/ GatewayPollErr
    \/ PollQueryErr
    \/ RecvGetPriorityQueueOps
    \/ NextRequest

GatewaySpec == GatewayInit /\ [][GatewayNext]_vars

\* The multiplexer under its two kinds of callers: the startup loop of run,
\* which calls block_number until it has a head, and the callers of
\* encode_tx_data.
EncoderNext ==
    \/ Tick
    \/ multiple_call_Err
    \/ multiple_call_Ok
    \/ multiple_call_bail
    \/ GatewayStartupBlockNumberOk
    \/ GatewayStartupBlockNumberErr
    \/ StartupDelayElapsed
    \/ EncodeTxData

EncoderSpec == GatewayInit /\ [][EncoderNext]_vars

(***************************************************************************)
(* The block ranges of update_eth_state over the whole width of a block    *)
(* number.  Block numbers are u64; the model keeps a word of WordBits      *)
(* bits, wide enough for PRIORITY_EXPIRATION, and draws the head, the      *)
(* confirmation depth and the known block from both ends of the word.      *)
(***************************************************************************)
\* u64::MAX, at the width of the model's word.
U64_MAX == 2^WordBits - 1

RangeHeads == Heads \cup {U64_MAX - 1, U64_MAX}
RangeConfirmations == (0..MaxConf) \cup {U64_MAX - 1, U64_MAX}

\* get_unconfirmed_ops: saturating_sub(..) + 1 on u64. The addition panics
\* in a build with overflow checks and wraps in a build without them.
block_from_number_u64(head, confirmations, overflow_checks) ==
    LET sum == block_from_number(head, confirmations)
    IN  IF sum <= U64_MAX THEN Returned(sum)
        ELSE IF overflow_checks
             THEN Panicked("attempt to add with overflow")
             ELSE Returned(sum % (U64_MAX + 1))

\* The bounds of the two ranges of one update_eth_state.
Computed(previous, new, block_from) ==
    [kind |-> "Computed",
     previous_block_with_accepted_events |-> previous,
     new_block_with_accepted_events |-> new,
     block_from_number |-> block_from]

\* update_eth_state computes the bounds of the accepted range, then
\* get_unconfirmed_ops the first block of the unconfirmed range.
UpdateEthStateRanges ==
    /\ pc = "update_eth_state"
    /\ \E overflow_checks \in BOOLEAN :
        LET block_from ==
                block_from_number_u64(current_ethereum_block,
                    number_of_confirmations_for_event, overflow_checks)
        IN  IF block_from.kind = "Panicked"
            THEN /\ ranges' = block_from
                 /\ pc' = "panicked"
            ELSE /\ ranges' = Computed(AcceptedFrom, AcceptedTo,
                                       block_from.value)
                 /\ pc' = "unconfirmed_priority"
    /\ UNCHANGED <<chain, number_of_confirmations_for_event, eth_state, mode,
                   caller, current_ethereum_block, accepted_priority_queue,
                   delay_until, eth_watch_req, now, history_vars,
                   gateway_vars>>

\* restore_state_from_eth with any head, or process_new_blocks with any head
\* above the known block, for any confirmation depth.
RangeInit ==
    /\ chain = ChainContiguous
    /\ number_of_confirmations_for_event \in RangeConfirmations
    /\ current_ethereum_block \in RangeHeads
    /\ \/ /\ caller = "restore_state_from_eth"
          /\ eth_state = ETHState_default
       \/ /\ caller = "process_new_blocks"
          /\ \E known_block \in RangeHeads :
                /\ known_block < current_ethereum_block
                /\ eth_state = ETHState_new(known_block, EmptyQueue)
    /\ mode = Working
    /\ pc = "update_eth_state"
    /\ accepted_priority_queue = EmptyQueue
    /\ delay_until = 0
    /\ eth_watch_req = <<>>
    /\ now = 0
    /\ outcome = "none"
    /\ state_before = eth_state
    /\ mode_before = Working
    /\ calls = 0
    /\ last_error = NoError
    /\ built_state = ETHState_default
    /\ reply = NoReply
    /\ accepted_window = NoWindow
    /\ hits = [b \in Heads |-> 0]
    /\ initial_block = 0
    /\ steady_heads = TRUE
    /\ clients = add_clients(0)
    /\ GatewayIdle
    /\ ranges = NoRanges

RangeNext == UpdateEthStateRanges

RangeSpec == RangeInit /\ [][RangeNext]_vars

(***************************************************************************)
(* Properties.                                                             *)
(***************************************************************************)
Confirmations == number_of_confirmations_for_event
Queue == eth_state.priority_queue

\* A GetPriorityQueueOps request waits in the channel.
RequestWaiting ==
    \E i \in 1..Len(eth_watch_req) : eth_watch_req[i] = "GetPriorityQueueOps"

\* The step in which run dequeues a PollETHNode message.
PollDequeued ==
    /\ pc = "recv"
    /\ eth_watch_req # <<>>
    /\ Head(eth_watch_req) = "PollETHNode"
    /\ pc' # "recv"

\* C1: a poll that was abandoned because one of its provider calls failed
\* leaves the Confirmation State exactly as it was when the poll began.
C1_FailedPollKeepsState ==
    outcome = "abandoned" => eth_state = state_before

\* A poll fails at its last call, after a new head was seen and operations
\* of the accepted range were collected.
C1_Witness ==
    /\ outcome = "abandoned"
    /\ calls = 7
    /\ current_ethereum_block > eth_state.last_ethereum_block
    /\ accepted_priority_queue # EmptyQueue
    /\ eth_state = state_before

\* C2: every accepted operation lies at or below last_ethereum_block minus
\* the confirmation depth, also when the head is below that depth.
C2_AcceptedAreConfirmed ==
    \A id \in DOMAIN Queue :
        Queue[id].eth_block <= eth_state.last_ethereum_block - Confirmations

C4_NoAcceptedBlockLost ==
    outcome = "replaced" =>
        /\ accepted_window.from <=
              saturating_sub(state_before.last_ethereum_block, Confirmations)
        /\ \A b \in Heads :
              (/\ state_before.last_ethereum_block - Confirmations < b
               /\ b <= eth_state.last_ethereum_block - Confirmations)
                  => (accepted_window.from <= b /\ b <= accepted_window.to)

\* A poll completes right after the backoff mode that an abandoned poll had
\* entered, and its window holds more than one block.
C4_Witness ==
    /\ outcome = "replaced"
    /\ mode_before.kind = "Backoff"
    /\ accepted_window.to > accepted_window.from + 1

\* C5: the stored state is at every moment the last state that was built as
\* a whole and passed to set_new_state, and every reply is computed from
\* that state, the one stored when the request was dequeued.
C5_ReplyFromOneGeneration ==
    /\ eth_state = built_state
    /\ reply.sent =>
          /\ state_before = built_state
          /\ reply.ops = get_priority_requests(built_state.priority_queue,
                                               reply.op_start_id,
                                               reply.max_chunks)

\* A query is answered with operations after a poll has replaced the
\* restored state.
C5_Witness ==
    /\ reply.sent
    /\ reply.ops # <<>>
    /\ eth_state.last_ethereum_block > initial_block

\* C6: after a poll that replaced the state, no entry of priority_queue is
\* PRIORITY_EXPIRATION blocks or more below the new head.
C6_NoExpiredEntryAfterPoll ==
    outcome = "replaced" =>
        \A id \in DOMAIN Queue :
            ~(Queue[id].eth_block
                <= eth_state.last_ethereum_block - PRIORITY_EXPIRATION)

RECURSIVE ChunksOf(_, _, _)
ChunksOf(queue, from, to) ==
    IF from > to THEN 0
    ELSE queue[from].chunks + ChunksOf(queue, from + 1, to)

\* The serial ids k for which from..k are all in the queue and fit max_chunks.
FittingRuns(queue, from, max_chunks) ==
    { k \in from..(from + Cardinality(DOMAIN queue)) :
        /\ \A id \in from..k : id \in DOMAIN queue
        /\ ChunksOf(queue, from, k) <= max_chunks }

Largest(S) == CHOOSE k \in S : \A other \in S : other <= k

\* C7: the reply holds the operations op_start_id..k in ascending order,
\* k being the largest serial id for which op_start_id..k are all in the
\* accepted set with a total chunk cost of at most max_chunks; it is empty
\* when there is no such k.
C7_LongestContiguousRunWithinBudget ==
    reply.sent =>
        LET runs == FittingRuns(Queue, reply.op_start_id, reply.max_chunks)
        IN  IF runs = {}
            THEN reply.ops = <<>>
            ELSE /\ Len(reply.ops) = Largest(runs) - reply.op_start_id + 1
                 /\ \A i \in 1..Len(reply.ops) :
                       reply.ops[i] = Queue[reply.op_start_id + i - 1]

\* A reply of two operations that stops at an operation which is in the queue
\* but would exceed the budget.
C7_Witness ==
    /\ reply.sent
    /\ Len(reply.ops) = 2
    /\ (reply.op_start_id + 2) \in DOMAIN Queue

\* C8: a PollETHNode dequeued in Backoff(t) before t ends at once, with no
\* provider call, and leaves the Confirmation State and the mode as they
\* were.
C8_BackoffSuppressesPolling ==
    [][ (PollDequeued /\ mode.kind = "Backoff" /\ now < mode.until)
            => /\ pc' = "handled"
               /\ calls' = 0
               /\ eth_state' = eth_state
               /\ mode' = mode ]_vars

\* A poll request was skipped during the backoff window.
C8_Witness ==
    /\ outcome = "skipped"
    /\ mode.kind = "Backoff"
    /\ now < mode.until
    /\ calls = 0

\* C9: a PollETHNode dequeued in Backoff(t) at or after t sets the mode to
\* Working and starts the poll; the mode leaves Backoff in no other step;
\* and a watcher in Backoff whose deadline the clock can reach polls the
\* provider again.
C9_BackoffEnds ==
    /\ [][ (PollDequeued /\ mode.kind = "Backoff" /\ now >= mode.until)
              => (mode' = Working /\ pc' = "block_number") ]_vars
    /\ [][ (mode.kind = "Backoff" /\ mode' # mode)
              => (PollDequeued /\ now >= mode.until) ]_vars
    /\ (mode.kind = "Backoff" /\ mode.until <= MaxTime)
          ~> (mode = Working /\ pc = "block_number")

\* A poll is under way that began in the backoff mode.
C9_Witness ==
    /\ outcome = "polling"
    /\ mode_before.kind = "Backoff"
    /\ mode = Working
    /\ pc = "block_number"

\* The error texts that hold the words "429 Too Many Requests".
RateLimitTexts == { ERR_RATE_LIMIT, ERR_RATE_LIMIT_EMBEDDED }

\* C10: the step that abandons a poll leaves the mode Backoff(now + 30 s)
\* when the error text holds "429 Too Many Requests", and Working otherwise.
C10_BackoffOnlyOnRateLimit ==
    [][ (outcome = "polling" /\ outcome' = "abandoned")
            => IF last_error' \in RateLimitTexts
               THEN mode' = Backoff(now + RATE_LIMIT_DELAY)
               ELSE mode' = Working ]_vars

\* A poll was abandoned with a rate limit error inside a longer text, and
\* the mode is Backoff.
C10_Witness ==
    /\ outcome = "abandoned"
    /\ last_error = ERR_RATE_LIMIT_EMBEDDED
    /\ mode.kind = "Backoff"

\* The names of the providers a call has invoked, in the order of the calls.
Names(invocations) ==
    [i \in 1..Len(invocations) |-> invocations[i].name]

\* C11: the providers a delegated call invokes are the first ones of the
\* list, in list order; a call that succeeds returns the result of the one
\* provider that succeeded, which is the last one invoked, all before it
\* having failed, and no provider is invoked once the call has returned.
C11_FirstSuccessInListOrder ==
    /\ [](Names(invoked) = SubSeq(clients, 1, Len(invoked)))
    /\ [](\A i \in 1..Len(invoked) :
            invoked[i].result.kind = "Ok" => i = Len(invoked))
    /\ [](call_result.kind = "Ok" =>
            /\ invoked # <<>>
            /\ invoked[Len(invoked)].result = call_result)
    /\ [][ call_result.kind # "Pending"
              => (invoked' = invoked \/ invoked' = <<>>) ]_vars

\* A poll's block_number has returned the head of the second provider after
\* the first one failed; a third provider was not invoked.
C11_Witness ==
    /\ pc = "block_number"
    /\ call_result.kind = "Ok"
    /\ Len(invoked) = 2
    /\ Len(clients) > 2
    /\ invoked[1].result.kind = "Err"

\* C12: a delegated call fails only after every provider of the list was
\* invoked once, in list order, and failed, and then with the aggregate
\* error; a call in which a provider succeeded does not fail; no call
\* invokes more providers than the list holds.
C12_FailsOnlyWhenAllFailed ==
    /\ call_result.kind = "Err" =>
          /\ call_result.error = ERR_ALL_INTERFACES
          /\ Names(invoked) = clients
          /\ \A i \in 1..Len(invoked) : invoked[i].result.kind = "Err"
    /\ (call_result.kind # "Pending"
          /\ \E i \in 1..Len(invoked) : invoked[i].result.kind = "Ok")
          => call_result.kind = "Ok"
    /\ (call_result.kind # "Pending"
          /\ \A i \in 1..Len(invoked) : invoked[i].result.kind = "Err")
          => call_result.kind = "Err"
    /\ Len(invoked) <= Len(clients)
    /\ \A i, j \in 1..Len(invoked) :
          invoked[i].name = invoked[j].name => i = j

\* A call has failed after two or more providers failed with different
\* errors.
C12_Witness ==
    /\ call_result.kind = "Err"
    /\ Len(invoked) >= 2
    /\ invoked[1].result.error = ERR_RATE_LIMIT
    /\ invoked[2].result.error = ERR_TIMEOUT

StartupSteps == {"startup", "startup_delay"}

\* C14: while the watcher has no head it is in the mode Working with the
\* default state and consumes no message; a failure of block_number, of any
\* kind, only starts a delay of RATE_LIMIT_DELAY, after which block_number
\* is called again (whenever the clock can reach the end of the delay); the
\* startup loop is left only by a successful block_number, and then for the
\* restoration.
C14_StartupRetriesUntilHead ==
    /\ [](pc \in StartupSteps
            => /\ mode = Working
               /\ eth_state = ETHState_default
               /\ outcome = "none"
               /\ ~reply.sent)
    /\ [][ (pc \in StartupSteps)
              => (pc' \in StartupSteps \cup {"unconfirmed_priority"}
                  /\ Len(eth_watch_req') >= Len(eth_watch_req)) ]_vars
    /\ [][ (pc = "startup" /\ pc' = "startup_delay")
              => delay_until' = now + RATE_LIMIT_DELAY ]_vars
    /\ [][ (pc = "startup_delay" /\ pc' # pc)
              => (pc' = "startup" /\ now >= delay_until) ]_vars
    /\ [][ (pc = "startup" /\ pc' = "unconfirmed_priority")
              => (caller' = "restore_state_from_eth"
                  /\ current_ethereum_block' \in Heads) ]_vars
    /\ (pc = "startup_delay" /\ delay_until <= MaxTime) ~> (pc = "startup")

\* block_number has failed a second time, with a rate limit error, while a
\* message waits in the channel.
C14_Witness ==
    /\ pc = "startup_delay"
    /\ delay_until >= 2 * RATE_LIMIT_DELAY
    /\ last_error \in RateLimitTexts
    /\ mode = Working
    /\ eth_watch_req # <<>>

\* C15: a range query that fails during restore_state_from_eth, whatever
\* its error, stops the watcher: the Confirmation State is still the default
\* one, the mode is Working, no message was or will be consumed and no reply
\* sent; and the message loop is entered from the restoration only by its
\* last query, with the state built from the head and the accepted range.
C15_RestoreFailureIsFatal ==
    /\ [][ (caller = "restore_state_from_eth" /\ pc \in QuerySteps
               /\ last_error' # last_error)
              => (pc' = "panicked" /\ eth_state' = eth_state
                  /\ mode' = mode) ]_vars
    /\ [](pc = "panicked"
            => /\ eth_state = ETHState_default
               /\ mode = Working
               /\ outcome = "none"
               /\ ~reply.sent)
    /\ [][ (pc = "panicked")
              => (pc' = "panicked" /\ eth_state' = eth_state
                  /\ Len(eth_watch_req') >= Len(eth_watch_req)) ]_vars
    /\ [][ (pc \in QuerySteps /\ caller = "restore_state_from_eth"
               /\ pc' = "recv")
              => /\ pc = "accepted_register"
                 /\ last_error' = NoError
                 /\ eth_state' =
                       ETHState_new(current_ethereum_block,
                                    accepted_priority_queue) ]_vars

\* The restoration has failed at one of its accepted-range queries with a
\* rate limit error while a message waits in the channel.
C15_Witness ==
    /\ pc = "panicked"
    /\ calls >= 4
    /\ last_error \in RateLimitTexts
    /\ eth_watch_req # <<>>
    /\ eth_state = ETHState_default

\* The operations the provider returns for an accepted range, as
\* get_accepted_ops collects them.
AcceptedOf(window) ==
    collect(EmissionOrder(EventsInRange(chain, window.from, window.to)))

PollInFlight ==
    /\ pc \in {"block_number"} \cup QuerySteps
    /\ caller = "process_new_blocks"

\* C17: the channel only changes by a message appended at its end or by
\* run taking the message at its head, which run does only between two
\* handlers; a poll that was started ends (unchanged, replaced or
\* abandoned) before anything else is dequeued, and no reply is sent while
\* it is in flight; a reply is computed when its request is dequeued, from
\* the state stored then, which is the last one passed to set_new_state.
C17_OneMessageAtATime ==
    /\ [][ eth_watch_req' # eth_watch_req
              => \/ \E request \in {"PollETHNode", "GetPriorityQueueOps"} :
                       eth_watch_req' = Append(eth_watch_req, request)
                 \/ /\ pc = "recv"
                    /\ eth_watch_req # <<>>
                    /\ eth_watch_req' = Tail(eth_watch_req)
                    /\ IF Head(eth_watch_req) = "PollETHNode"
                       THEN outcome' \in {"skipped", "polling"}
                       ELSE outcome' = "replied" ]_vars
    /\ [](PollInFlight => (outcome = "polling" /\ ~reply.sent))
    /\ [][ (outcome = "polling")
              => /\ outcome' \in {"polling", "unchanged", "replaced",
                                  "abandoned"}
                 /\ Len(eth_watch_req') >= Len(eth_watch_req) ]_vars
    /\ [][ (reply'.sent /\ ~reply.sent)
              => /\ pc = "recv"
                 /\ eth_watch_req # <<>>
                 /\ Head(eth_watch_req) = "GetPriorityQueueOps"
                 /\ eth_state = built_state
                 /\ reply'.ops =
                       get_priority_requests(eth_state.priority_queue,
                                             reply'.op_start_id,
                                             reply'.max_chunks) ]_vars

\* A GetPriorityQueueOps request waits at the head of the channel while a
\* poll that has collected accepted operations awaits its last query.
C17_Witness ==
    /\ PollInFlight
    /\ pc = "accepted_register"
    /\ accepted_priority_queue # EmptyQueue
    /\ eth_watch_req # <<>>
    /\ Head(eth_watch_req) = "GetPriorityQueueOps"
    /\ ~reply.sent

\* A poll that found a new head is at one of its range queries.
PollQuerying == PollInFlight /\ pc \in QuerySteps

AtLeastZero(n) == IF n > 0 THEN n ELSE 0

Restored ==
    /\ caller = "restore_state_from_eth"
    /\ pc \in {"recv", "handled"}

\* C19: after restore_state_from_eth has succeeded with head H, the state
\* holds H and exactly the operations of the blocks from
\* H - confirmations - PRIORITY_EXPIRATION (not below zero) to
\* H - confirmations, and the unconfirmed range starts at
\* H - confirmations + 1.
C19_RestoredState ==
    Restored =>
        LET H == initial_block
        IN  /\ eth_state =
                  ETHState_new(H,
                      collect(EmissionOrder(EventsInRange(chain,
                          AtLeastZero(H - Confirmations - PRIORITY_EXPIRATION),
                          H - Confirmations))))
            /\ block_from_number(H, Confirmations) = H - Confirmations + 1

\* C20: a poll whose block_number returns a head that is not above
\* last_ethereum_block ends after that one call with the Confirmation State
\* (its queue included) and the mode Working as they were; a poll is at a
\* range query only with a head above last_ethereum_block.
C20_NoNewBlockIsNoOp ==
    /\ [](outcome = "unchanged"
            => /\ calls = 1
               /\ pc = "handled"
               /\ eth_state = state_before
               /\ mode = Working)
    /\ [](PollQuerying
            => current_ethereum_block > eth_state.last_ethereum_block)
    /\ [][ (outcome = "polling" /\ outcome' = "unchanged")
              => /\ pc = "block_number"
                 /\ eth_state' = eth_state
                 /\ mode' = mode
                 /\ accepted_window' = accepted_window ]_vars

\* A poll has ended without new blocks while the queue holds operations.
C20_Witness ==
    /\ outcome = "unchanged"
    /\ calls = 1
    /\ Queue # EmptyQueue
    /\ eth_state = state_before
    /\ mode = Working

\* run is in its message loop.
LoopEntered == pc \in {"recv", "handled"} \/ PollInFlight

\* The step in which run dequeues a GetPriorityQueueOps request.
GetDequeued ==
    /\ pc = "recv"
    /\ eth_watch_req # <<>>
    /\ Head(eth_watch_req) = "GetPriorityQueueOps"
    /\ eth_watch_req' = Tail(eth_watch_req)

\* C21: the step that dequeues a GetPriorityQueueOps request sends its
\* reply (to the receiver, or to nobody when the receiver was dropped), in
\* any mode and without a provider call, and a reply is sent in no other
\* step; once run is in its loop, with provider calls that return, a
\* request waiting anywhere in the channel is answered.
C21_EveryRequestAnswered ==
    /\ [][ GetDequeued
              => /\ (reply'.sent \/ reply' = Discarded)
                 /\ calls' = 0
                 /\ outcome' = "replied"
                 /\ mode' = mode ]_vars
    /\ [][ (reply' # reply) => (GetDequeued \/ reply' = NoReply) ]_vars
    /\ [](outcome = "replied" => (reply # NoReply /\ calls = 0))
    /\ (LoopEntered /\ RequestWaiting) ~> (outcome = "replied")

\* A request was answered, and its reply delivered, during the backoff
\* window.
C21_Witness ==
    /\ outcome = "replied"
    /\ reply.sent
    /\ calls = 0
    /\ mode.kind = "Backoff"
    /\ now < mode.until

\* C22: when the receiver of a request's resp slot was dropped, the step
\* that handles the request leaves the Confirmation State and the mode as
\* they were and run goes on to the next message: the only way run stops
\* is the failed restoration.
C22_DroppedReplySlotIsIgnored ==
    /\ [][ (GetDequeued /\ reply' = Discarded)
              => /\ pc' = "handled"
                 /\ eth_state' = eth_state
                 /\ mode' = mode ]_vars
    /\ [](reply = Discarded
            => /\ pc = "handled"
               /\ outcome = "replied"
               /\ eth_state = state_before
               /\ mode = mode_before)
    /\ [](pc = "handled" => ENABLED NextRequest)
    /\ [][ (pc = "handled" /\ pc' # pc) => pc' = "recv" ]_vars
    /\ [](pc = "panicked"
            => (caller = "restore_state_from_eth" /\ outcome = "none"))

\* A reply was discarded while the queue holds operations and another
\* message waits.
C22_Witness ==
    /\ reply = Discarded
    /\ eth_state.priority_queue # EmptyQueue
    /\ eth_watch_req # <<>>
    /\ pc = "handled"

\* C23: once the state is restored, no step lowers last_ethereum_block; the
\* step that replaces the state raises it, and every other step leaves the
\* whole state as it is, whatever heads the provider reports and whichever
\* calls fail.
C23_LastBlockNeverDecreases ==
    /\ [][ LoopEntered
              => /\ eth_state'.last_ethereum_block
                      >= eth_state.last_ethereum_block
                 /\ (outcome' = "replaced" /\ outcome # "replaced")
                      => eth_state'.last_ethereum_block
                           > eth_state.last_ethereum_block
                 /\ (eth_state' # eth_state)
                      => (outcome' = "replaced" /\ outcome # "replaced") ]_vars
    /\ [](LoopEntered => eth_state.last_ethereum_block >= initial_block)

\* The state was replaced by a poll after an earlier poll had seen a lower
\* head or had been abandoned in a range query.
C23_Witness ==
    /\ outcome = "replaced"
    /\ ~steady_heads
    /\ eth_state.last_ethereum_block > initial_block
    /\ eth_state.last_ethereum_block > state_before.last_ethereum_block

\* The provider calls of one poll, in the order in which poll_eth_node,
\* get_unconfirmed_ops and get_accepted_ops await them.
CallOrder ==
    <<"block_number", "unconfirmed_priority", "unconfirmed_token",
      "unconfirmed_register", "accepted_priority", "accepted_token",
      "accepted_register">>

\* C24: the calls of one poll are awaited in the order block_number, the
\* three queries of the unconfirmed range, the three queries of the accepted
\* range; each step of a poll is the return of the next call of that order
\* and either goes on to the following call or ends the poll; a failed call
\* ends the poll with the state untouched and no call after it; a poll that
\* failed in block_number or in a query of the unconfirmed range has
\* queried no accepted range and has left priority_queue as it was.
C24_CallsInOrderFirstFailureAborts ==
    /\ [](PollInFlight => (calls <= 6 /\ pc = CallOrder[calls + 1]))
    /\ [][ (PollInFlight /\ pc' # pc)
              => /\ calls' = calls + 1
                 /\ \/ pc' = "handled"
                    \/ /\ calls < 6
                       /\ pc' = CallOrder[calls + 2]
                       /\ outcome' = outcome
                       /\ eth_state' = eth_state ]_vars
    /\ [][ (PollInFlight /\ outcome' = "abandoned")
              => /\ pc' = "handled"
                 /\ eth_state' = eth_state
                 /\ calls' = calls + 1 ]_vars
    /\ [][ (pc = "handled") => (calls' = calls \/ calls' = 0) ]_vars
    /\ []((outcome = "abandoned" /\ calls <= 4)
            => /\ accepted_window = NoWindow
               /\ accepted_priority_queue = EmptyQueue
               /\ eth_state = state_before)

\* A poll failed in the last query of the unconfirmed range, with an error
\* that is not a rate limit, while the accepted range of its head held an
\* operation that the state does not hold.
C24_Witness ==
    /\ outcome = "abandoned"
    /\ calls = 4
    /\ mode = Working
    /\ accepted_window = NoWindow
    /\ eth_state = state_before
    /\ \E e \in EventsInRange(chain, AcceptedFrom, AcceptedTo) :
          e.serial_id \notin DOMAIN eth_state.priority_queue

\* C25: the mode becomes Backoff(t) only in the step in which a poll that
\* was started in the mode Working fails with a rate-limit error, and then
\* t is RATE_LIMIT_DELAY after that step; polls are in flight in the mode
\* Working only; while the mode is Backoff(t) a step either keeps it or
\* sets it to Working, so that the deadline is never further away than
\* RATE_LIMIT_DELAY, whatever messages arrive.
C25_BackoffIsNeverExtended ==
    /\ [][ (mode'.kind = "Backoff" /\ mode' # mode)
              => /\ mode = Working
                 /\ PollInFlight
                 /\ outcome' = "abandoned"
                 /\ is_backoff_requested(last_error')
                 /\ mode'.until = now + RATE_LIMIT_DELAY ]_vars
    /\ [](PollInFlight => mode = Working)
    /\ [][ (mode.kind = "Backoff")
              => (mode' = mode \/ mode' = Working) ]_vars
    /\ [](mode.kind = "Backoff" => mode.until <= now + RATE_LIMIT_DELAY)

\* Well into a backoff window a poll request was skipped and the deadline
\* is the one set when the window began, while another message waits.
C25_Witness ==
    /\ outcome = "skipped"
    /\ mode.kind = "Backoff"
    /\ mode = mode_before
    /\ now < mode.until
    /\ now > mode.until - RATE_LIMIT_DELAY
    /\ eth_watch_req # <<>>

\* C26: with an empty provider list a delegated call invokes no provider
\* and returns the error of anyhow::bail!, and encode_tx_data panics; with a
\* provider in the list encode_tx_data returns the encoding made by the
\* first one.
C26_EmptyProviderList ==
    /\ [](clients = add_clients(0)
            => /\ invoked = <<>>
               /\ client_index = 0
               /\ call_result \in {Pending, Err(ERR_ALL_INTERFACES)}
               /\ encoded \in {NotEncoded,
                                Panicked("Should be exactly one client")}
               /\ pc \in StartupSteps
               /\ eth_state = ETHState_default)
    /\ []((clients # <<>> /\ encoded # NotEncoded)
            => /\ encoded.kind = "Returned"
               /\ encoded.value.client = clients[1])
    /\ [][ (encoded' # encoded)
              => /\ encoded'.kind = IF clients = <<>> THEN "Panicked"
                                    ELSE "Returned"
                 /\ UNCHANGED <<program_vars, clients, client_index,
                                call_result, invoked>> ]_vars

\* With no provider in the list, block_number has failed with the error of
\* anyhow::bail! and encode_tx_data has panicked.
C26_Witness ==
    /\ clients = <<>>
    /\ invoked = <<>>
    /\ call_result = Err(ERR_ALL_INTERFACES)
    /\ encoded.kind = "Panicked"

\* C27, as claimed: for every head, confirmation depth and known block, the
\* bounds are computed and satisfy 0 <= previous bound <= new bound <= head,
\* and the unconfirmed range starts at the new bound plus one, so that the
\* two ranges are adjacent and do not overlap.
C27_RangeBounds ==
    (ranges # NoRanges)
        => /\ ranges.kind = "Computed"
           /\ 0 <= ranges.previous_block_with_accepted_events
           /\ ranges.previous_block_with_accepted_events
                <= ranges.new_block_with_accepted_events
           /\ ranges.new_block_with_accepted_events <= current_ethereum_block
           /\ ranges.block_from_number
                = ranges.new_block_with_accepted_events + 1
           /\ ranges.new_block_with_accepted_events
                < ranges.block_from_number

====
